---- MODULE Spec2Model ----
(***************************************************************************)
(* Verification model of FlashController (src/src/flash_controller.py):    *)
(* flash_firmware with its two backends (_flash_with_platformio and        *)
(* _flash_with_esptool_subprocess) and erase_flash.                        *)
(*                                                                         *)
(* Text is modelled as a sequence of tokens (atomic pieces of a string);   *)
(* `x in s` is "x occurs as a contiguous run of tokens of s".  Hexadecimal *)
(* addresses are sequences of one-character tokens that are parsed digit   *)
(* by digit.  Time is a logical clock that advances by one on every step   *)
(* that touches the file system or an external process.                    *)
(***************************************************************************)
EXTENDS Integers, Sequences, FiniteSets, TLC

\* ------------------------------------------------------------------ bounds
MaxLines == 2       \* lines an external write process prints before closing
MaxFaults == 1      \* exceptions raised by the environment in one call
MaxLogLines == 12   \* lines of a write process that prints only its log

\* --------------------------------------------------------- program constants
DEFAULT_FLASH_ADDRESS == 4096
BOOTLOADER_ADDRESS == 0
PARTITIONS_ADDRESS == 32768
APP_ADDRESS == 65536
PIO_BASE_ADDRESS == 65536
FALLBACK_DIVISOR == 65536
TAIL_LINES == 10
STEP_INCREMENT == 2
WRITE_CAP == 99

None == "None"

\* ------------------------------------------------------------- text helpers
\* s[from..] ; empty when from is beyond the end
Drop(s, n) == SubSeq(s, n + 1, Len(s))
Take(s, n) == SubSeq(s, 1, n)

\* index of the first occurrence of pat in s as a contiguous run, 0 if none
Find(pat, s) ==
    LET hits == {i \in 1..(Len(s) - Len(pat) + 1) : SubSeq(s, i, i + Len(pat) - 1) = pat}
    IN IF hits = {} THEN 0 ELSE CHOOSE i \in hits : \A j \in hits : i <= j

\* Python `pat in s`
Contains(pat, s) == Find(pat, s) # 0

\* str.lower(), token by token
LowerToken(t) ==
    CASE t = "PlatformIO not found" -> "platformio not found"
      [] t = "PlatformIO error: " -> "platformio error: "
      [] t = "PlatformIO erase failed: " -> "platformio erase failed: "
      [] t = "PlatformIO flash failed: " -> "platformio flash failed: "
      [] t = "Firmware flashed successfully with PlatformIO" -> "firmware flashed successfully with platformio"
      [] t = "Firmware flashed successfully" -> "firmware flashed successfully"
      [] t = "Firmware file not found: " -> "firmware file not found: "
      [] t = "Flash operation failed: " -> "flash operation failed: "
      [] t = "Subprocess error: " -> "subprocess error: "
      [] t = "Esptool failed with code " -> "esptool failed with code "
      [] t = "Erase failed: " -> "erase failed: "
      [] t = "Writing at 0x" -> "writing at 0x"
      [] t = "Hash of data verified" -> "hash of data verified"
      [] t = "Hard resetting" -> "hard resetting"
      [] t = " via RTS pin" -> " via rts pin"
      [] t = "Connecting" -> "connecting"
      [] t = "Chip is" -> "chip is"
      [] t = " ESP32-S3" -> " esp32-s3"
      [] t = "Error: " -> "error: "
      [] t = "A fatal error occurred" -> "a fatal error occurred"
      [] t = "[Errno 2] No such file or directory" -> "[errno 2] no such file or directory"
      [] t = "[Errno 13] Permission denied" -> "[errno 13] permission denied"
      [] t = "Failed to connect to ESP32" -> "failed to connect to esp32"
      [] OTHER -> t

Lower(s) == [i \in 1..Len(s) |-> LowerToken(s[i])]

Whitespace == {"\n", " "}

RECURSIVE LStrip(_)
LStrip(s) == IF s # <<>> /\ Head(s) \in Whitespace THEN LStrip(Tail(s)) ELSE s

RECURSIVE RStrip(_)
RStrip(s) == IF s # <<>> /\ s[Len(s)] \in Whitespace THEN RStrip(Take(s, Len(s) - 1)) ELSE s

\* str.strip()
Strip(s) == RStrip(LStrip(s))

\* s.split(sep)[1]: the piece between the first and the second occurrence
\* of sep (only used when sep occurs in s)
SplitSecond(sep, s) ==
    LET rest == Drop(s, Find(sep, s) + Len(sep) - 1)
        nxt == Find(sep, rest)
    IN IF nxt = 0 THEN rest ELSE Take(rest, nxt - 1)

\* s.split(sep)[0]: the piece before the first occurrence of sep
SplitFirst(sep, s) ==
    LET at == Find(sep, s) IN IF at = 0 THEN s ELSE Take(s, at - 1)

HexDigits == <<"0", "1", "2", "3", "4", "5", "6", "7", "8", "9", "a", "b", "c", "d", "e", "f">>

IsHexDigit(t) == \E i \in 1..16 : HexDigits[i] = t

HexValue(t) == (CHOOSE i \in 1..16 : HexDigits[i] = t) - 1

\* int(s, 16) succeeds
IsHex(s) == s # <<>> /\ \A i \in 1..Len(s) : IsHexDigit(s[i])

RECURSIVE ParseHex(_)
ParseHex(s) == IF s = <<>> THEN 0 ELSE 16 * ParseHex(Take(s, Len(s) - 1)) + HexValue(s[Len(s)])

\* '\n'.join(lines)
RECURSIVE JoinLines(_)
JoinLines(lines) ==
    IF lines = <<>> THEN <<>>
    ELSE IF Len(lines) = 1 THEN lines[1]
    ELSE lines[1] \o <<"\n">> \o JoinLines(Tail(lines))

\* mutant: lines[:n], the head of the output instead of its tail
LastN_firstLines(lines, n) == IF Len(lines) <= n THEN lines ELSE Take(lines, n)

\* lines[-n:]
LastN(lines, n) == IF Len(lines) <= n THEN lines ELSE Drop(lines, Len(lines) - n)

\* int(x) of the float a / b * 100: truncation towards zero
Trunc100(a, b) == IF a >= 0 THEN (a * 100) \div b ELSE -(((-a) * 100) \div b)

Min(a, b) == IF a <= b THEN a ELSE b


\* ------------------------------------------------------------- environment
\* The file system the calls run against: existing files and their sizes
\* (Path.exists, os.path.getsize).
FileSize(path) ==
    CASE path = "fw.bin" -> 131072
      [] path = "empty.bin" -> 0
      [] path = "bootloader.bin" -> 16384
      [] path = "partitions.bin" -> 3072
      [] OTHER -> 0

ExistingFiles == {"fw.bin", "empty.bin", "bootloader.bin", "partitions.bin"}

\* mutant: the existence check always passes
PathExists_unchecked(path) == TRUE

PathExists(path) == path \in ExistingFiles

FirmwarePaths == {"fw.bin", "empty.bin", "missing.bin"}

\* flash address and companion files of a request.  The flash address is
\* read by the fallback backend only and the companion files by the primary
\* backend only, so each backend meets every value of what it reads with
\* every firmware file and both values of erase_all.
AddressAndCompanions ==
    { <<DEFAULT_FLASH_ADDRESS, None, None>>,
      <<APP_ADDRESS, "bootloader.bin", "partitions.bin">>,
      <<DEFAULT_FLASH_ADDRESS, "bootloader.bin", None>> }

\* str(e) of the exceptions the environment can raise
SpawnError == "[Errno 2] No such file or directory"
GetsizeError == "[Errno 13] Permission denied"
CallbackError == "progress sink closed"
DetectError == "Failed to connect to ESP32"
ValueError == "invalid literal for int() with base 16"

\* what a tool can leave in its captured stderr
StderrTexts == { <<"A fatal error occurred">>, <<"Error: ", "PlatformIO not found">> }

\* raw lines a write process can print (each ends with its newline)
WritingLine(digits) == <<"Writing at 0x">> \o digits \o <<"...", "\n">>

LineSet ==
    { WritingLine(<<"0", "0", "0", "0", "0">>),
      WritingLine(<<"3", "0", "0", "0", "0">>),
      WritingLine(<<"z", "z">>),
      <<"Hash of data verified", ".", "\n">>,
      <<"Hard resetting", " via RTS pin", "...", "\n">>,
      <<"Connecting", "...", "\n">>,
      <<"A fatal error occurred", "\n">> }

\* the n-th line of the log of a write process that prints nothing the read
\* loops recognise
LogPrefix == "Wrote block "

LogLine(n) == <<LogPrefix, HexDigits[(n \div 10) + 1], HexDigits[(n % 10) + 1], "\n">>

ExitCodes == {0, 1}

CodeStr(c) == IF c = 0 THEN "0" ELSE "1"

\* ------------------------------------------------------------------- state
VARIABLES
    progress_callback,  \* self.progress_callback: None or "cb"
    pc,                 \* position of the running call
    args,               \* arguments of the running call
    start_time,         \* start_time of the running call
    now,                \* time.time()
    firmware_size,      \* self._firmware_size: [has, val]
    flash_cmd,          \* (address, file) segments of the write command
    process,            \* the Popen write process and its stdout pipe
    output_lines,       \* output_lines of the read loop
    progress,           \* progress of the read loop
    events,             \* every (percent, message) passed to the callback
    loop_start,         \* Len(events) when the current read loop began
    attempt_start,      \* Len(events) when the current backend began
    result,             \* local `result` of flash_firmware
    returned,           \* the FlashResult handed to the caller
    attempts,           \* backend attempts of this call, with their results
    raised,             \* str(e) of the exceptions the environment raised
    swallowed,          \* where exceptions were caught and dropped
    spawned,            \* external processes launched so far
    detection,          \* the DeviceDetector call made and its outcome
    erase_result,       \* erase_result.returncode of the finished erase sub-command
    cli                 \* the run of the CLI `flash` command: options and outcome

vars == <<progress_callback, pc, args, start_time, now, firmware_size, flash_cmd,
          process, output_lines, progress, events, loop_start, attempt_start,
          result, returned, attempts, raised, swallowed, spawned, detection,
          erase_result, cli>>

\* no CLI command was run
NoCommand == [step |-> "none"]

\* no erase sub-command has finished
NoErase == [returncode |-> -1]

NoProcess == [state |-> "none", pipe |-> <<>>, written |-> 0, closed |-> FALSE, returncode |-> 0]

NoArgs == [call |-> None]

NoDetection == [call |-> None]

FlashResult(success, message, duration, chip_type) ==
    [success |-> success, message |-> message, duration |-> duration, chip_type |-> chip_type]

NoResult == [success |-> FALSE, message |-> <<>>, duration |-> -1, chip_type |-> None]

Init ==
    /\ progress_callback = None
    /\ pc = "idle"
    /\ args = NoArgs
    /\ start_time = 0
    /\ now = 0
    /\ firmware_size = [has |-> FALSE, val |-> 0]
    /\ flash_cmd = <<>>
    /\ process = NoProcess
    /\ output_lines = <<>>
    /\ progress = 0
    /\ events = <<>>
    /\ loop_start = 0
    /\ attempt_start = 0
    /\ result = NoResult
    /\ returned = NoResult
    /\ attempts = <<>>
    /\ raised = <<>>
    /\ swallowed = <<>>
    /\ spawned = <<>>
    /\ detection = NoDetection
    /\ erase_result = NoErase
    /\ cli = NoCommand

\* ------------------------------------------------- sequential-code helpers
\* A block of code is run on a record st = [evs, raised, sw, exc]: the
\* events delivered so far, the exceptions raised so far, the sites where
\* some were swallowed, and the pending exception (None while the block runs
\* normally).
Start == [evs |-> events, raised |-> raised, sw |-> swallowed, exc |-> None]

CanRaise(st) == Len(st.raised) < MaxFaults

\* if self.progress_callback: self.progress_callback(p, m)
\* (raises: whether the callback raises on this invocation)
Call(st, p, m, raises) ==
    IF st.exc # None \/ progress_callback = None THEN st
    ELSE IF raises /\ CanRaise(st)
    THEN [st EXCEPT !.evs = Append(@, [percent |-> p, message |-> m]),
                    !.raised = Append(@, CallbackError),
                    !.exc = CallbackError]
    ELSE [st EXCEPT !.evs = Append(@, [percent |-> p, message |-> m])]

\* an external operation that may raise desc
Ext(st, raises, desc) ==
    IF st.exc # None THEN st
    ELSE IF raises /\ CanRaise(st) THEN [st EXCEPT !.raised = Append(@, desc), !.exc = desc]
    ELSE st

\* an exception of the code's own making (int() of a malformed address)
Raise(st, desc) == IF st.exc # None THEN st ELSE [st EXCEPT !.exc = desc]

\* `except: pass`, or entering a bare except handler: the pending exception
\* is dropped (an exception of the environment is recorded with the site)
Swallow(st, site) ==
    IF st.exc = None THEN st
    ELSE [st EXCEPT !.exc = None, !.sw = IF st.exc = ValueError THEN @ ELSE Append(@, site)]

\* the outcomes of subprocess.run / Popen: the spawn raises, or the tool
\* runs and exits with a code
RunOutcomes == IF Len(raised) < MaxFaults THEN {"raise", "rc0", "rc1"} ELSE {"rc0", "rc1"}

Commit(st) ==
    /\ events' = st.evs
    /\ raised' = st.raised
    /\ swallowed' = st.sw

Tick == now' = now + 1

\* a backend returns r to flash_firmware from the return statement `via`
BackendReturns(r, via, after) ==
    /\ result' = r
    /\ attempts' = [attempts EXCEPT ![Len(attempts)] =
                        [@ EXCEPT !.resolved = TRUE, !.via = via, !.result = r, !.ended = now']]
    /\ pc' = after

BackendContinues(next) ==
    /\ pc' = next
    /\ UNCHANGED <<result, attempts>>

\* (began, ended: time.time() when the backend is called and when it returns)
NewAttempt(backend) ==
    [backend |-> backend, resolved |-> FALSE, via |-> None, result |-> NoResult,
     began |-> now', ended |-> -1]

\* ------------------------------------------------------ FlashController API
set_progress_callback ==
    /\ pc = "idle"
    /\ progress_callback = None
    /\ progress_callback' = "cb"
    /\ Tick
    /\ UNCHANGED <<pc, args, start_time, firmware_size, flash_cmd, process, output_lines,
                   progress, events, loop_start, attempt_start, result, returned,
                   attempts, raised, swallowed, spawned>>
    /\ UNCHANGED detection
    /\ UNCHANGED erase_result
    /\ UNCHANGED cli

\* flash_firmware is entered: start_time = time.time()
flash_firmware ==
    /\ pc = "idle"
    /\ \E fp \in FirmwarePaths, ea \in BOOLEAN, ac \in AddressAndCompanions :
         args' = [call |-> "flash_firmware", firmware_path |-> fp, flash_address |-> ac[1],
                  erase_all |-> ea, bootloader_path |-> ac[2], partitions_path |-> ac[3]]
    /\ start_time' = now
    /\ pc' = "ff_validate"
    /\ Tick
    /\ UNCHANGED <<progress_callback, firmware_size, flash_cmd, process, output_lines,
                   progress, events, loop_start, attempt_start, result, returned,
                   attempts, raised, swallowed, spawned>>
    /\ UNCHANGED detection
    /\ UNCHANGED erase_result
    /\ UNCHANGED cli

\* the except clause of flash_firmware
FlashFirmwareExcept(st) ==
    /\ returned' = FlashResult(FALSE, <<"Flash operation failed: ", st.exc>>, now' - start_time, None)
    /\ pc' = "returned"
    /\ UNCHANGED <<attempts, attempt_start>>

\* mutant: the primary backend is called without the 0% event
Validate_noConnectingEvent ==
    /\ pc = "ff_validate"
    /\ Tick
    /\ IF ~PathExists(args.firmware_path)
       THEN /\ returned' = FlashResult(FALSE, <<"Firmware file not found: ", args.firmware_path>>, 0, None)
            /\ pc' = "returned"
            /\ UNCHANGED <<attempts, attempt_start>>
       ELSE /\ pc' = "pio_version"
            /\ attempts' = Append(attempts, NewAttempt("platformio"))
            /\ attempt_start' = Len(events)
            /\ UNCHANGED returned
    /\ UNCHANGED <<progress_callback, args, start_time, firmware_size, flash_cmd, process,
                   output_lines, progress, loop_start, result, spawned, events, raised, swallowed>>
    /\ UNCHANGED detection
    /\ UNCHANGED erase_result
    /\ UNCHANGED cli

\* the file check and the 0% event, up to the call of the primary backend
Validate ==
    /\ pc = "ff_validate"
    /\ Tick
    /\ \E r \in BOOLEAN :
         IF ~PathExists(args.firmware_path)
         THEN /\ returned' = FlashResult(FALSE, <<"Firmware file not found: ", args.firmware_path>>, 0, None)
              /\ pc' = "returned"
              /\ UNCHANGED <<events, raised, swallowed, attempts, attempt_start>>
         ELSE LET s1 == Call(Start, 0, "Connecting to device...", r)
              IN /\ Commit(s1)
                 /\ IF s1.exc # None
                    THEN FlashFirmwareExcept(s1)
                    ELSE /\ pc' = "pio_version"
                         /\ attempts' = Append(attempts, NewAttempt("platformio"))
                         /\ attempt_start' = Len(s1.evs)
                         /\ UNCHANGED returned
    /\ UNCHANGED <<progress_callback, args, start_time, firmware_size, flash_cmd, process,
                   output_lines, progress, loop_start, result, spawned>>
    /\ UNCHANGED detection
    /\ UNCHANGED erase_result
    /\ UNCHANGED cli

\* mutant: the message is searched without lower()
ToolUnavailable_caseSensitive(r) ==
    ~r.success /\ Contains(<<"platformio not found">>, r.message)

\* "platformio not found" in result.message.lower()
ToolUnavailable(r) == ~r.success /\ Contains(<<"platformio not found">>, Lower(r.message))

\* mutant: the fallback is called after any result of the primary
FallBack_unconditional ==
    /\ pc = "ff_after_primary"
    /\ UNCHANGED <<progress_callback, args, start_time, now, firmware_size, flash_cmd, process,
                   output_lines, progress, events, loop_start, result, returned,
                   raised, swallowed, spawned>>
    /\ pc' = "esp_start"
    /\ attempts' = Append(attempts, NewAttempt("esptool"))
    /\ attempt_start' = Len(events)
    /\ UNCHANGED detection
    /\ UNCHANGED erase_result
    /\ UNCHANGED cli

\* the primary returned the tool-unavailable signature: call the fallback
FallBack ==
    /\ pc = "ff_after_primary"
    /\ UNCHANGED <<progress_callback, args, start_time, now, firmware_size, flash_cmd, process,
                   output_lines, progress, events, loop_start, result, returned,
                   raised, swallowed, spawned>>
    /\ ToolUnavailable(result)
    /\ pc' = "esp_start"
    /\ attempts' = Append(attempts, NewAttempt("esptool"))
    /\ attempt_start' = Len(events)
    /\ UNCHANGED detection
    /\ UNCHANGED erase_result
    /\ UNCHANGED cli

\* mutant: the primary's result is kept when the fallback ran
ReturnResult_keepsPrimary ==
    /\ \/ pc = "ff_after_primary" /\ ~ToolUnavailable(result)
       \/ pc = "ff_after_fallback"
    /\ returned' = [attempts[1].result EXCEPT !.duration = now - start_time]
    /\ pc' = "returned"
    /\ UNCHANGED <<progress_callback, args, start_time, now, firmware_size, flash_cmd, process,
                   output_lines, progress, events, loop_start, attempt_start, result,
                   attempts, raised, swallowed, spawned>>
    /\ UNCHANGED detection
    /\ UNCHANGED erase_result
    /\ UNCHANGED cli

\* mutant: the backend's result is returned with the duration it carries
ReturnResult_backendDuration ==
    /\ \/ pc = "ff_after_primary" /\ ~ToolUnavailable(result)
       \/ pc = "ff_after_fallback"
    /\ returned' = result
    /\ pc' = "returned"
    /\ UNCHANGED <<progress_callback, args, start_time, now, firmware_size, flash_cmd, process,
                   output_lines, progress, events, loop_start, attempt_start, result,
                   attempts, raised, swallowed, spawned>>
    /\ UNCHANGED detection
    /\ UNCHANGED erase_result
    /\ UNCHANGED cli

\* result.duration = time.time() - start_time; return result
ReturnResult ==
    /\ \/ pc = "ff_after_primary" /\ ~ToolUnavailable(result)
       \/ pc = "ff_after_fallback"
    /\ returned' = [result EXCEPT !.duration = now - start_time]
    /\ pc' = "returned"
    /\ UNCHANGED <<progress_callback, args, start_time, now, firmware_size, flash_cmd, process,
                   output_lines, progress, events, loop_start, attempt_start, result,
                   attempts, raised, swallowed, spawned>>
    /\ UNCHANGED detection
    /\ UNCHANGED erase_result
    /\ UNCHANGED cli

\* ------------------------------------------------- _flash_with_platformio
\* the except clause of _flash_with_platformio
PioExcept(st) ==
    BackendReturns(FlashResult(FALSE, <<"PlatformIO error: ", st.exc>>, 0, None),
                   "except", "ff_after_primary")

\* subprocess.run(['pio', '--version']) and the 5% event
PioVersion ==
    /\ pc = "pio_version"
    /\ Tick
    /\ \E out \in RunOutcomes, r \in BOOLEAN :
         LET s1 == Ext(Start, out = "raise", SpawnError)
             s2 == IF out = "rc0" THEN Call(s1, 5, "Using PlatformIO for reliable flashing...", r) ELSE s1
         IN /\ Commit(s2)
            /\ spawned' = IF out = "raise" THEN spawned ELSE Append(spawned, "pio --version")
            /\ IF s2.exc # None THEN PioExcept(s2)
               ELSE IF out = "rc1"
               THEN BackendReturns(FlashResult(FALSE, <<"PlatformIO not found">>, 0, None),
                                   "not_found", "ff_after_primary")
               ELSE BackendContinues("pio_chip_id")
    /\ UNCHANGED <<progress_callback, args, start_time, firmware_size, flash_cmd, process,
                   output_lines, progress, loop_start, attempt_start, returned>>
    /\ UNCHANGED detection
    /\ UNCHANGED erase_result
    /\ UNCHANGED cli

\* the (address, file) segments of the write command
PioFlashCmd ==
    (IF args.bootloader_path # None /\ PathExists(args.bootloader_path)
     THEN <<[address |-> BOOTLOADER_ADDRESS, file |-> args.bootloader_path]>> ELSE <<>>)
    \o (IF args.partitions_path # None /\ PathExists(args.partitions_path)
        THEN <<[address |-> PARTITIONS_ADDRESS, file |-> args.partitions_path]>> ELSE <<>>)
    \o <<[address |-> APP_ADDRESS, file |-> args.firmware_path]>>

\* the command is built, the firmware size stored and the "starting" event
\* emitted
PioPrepareWrite(st, rsz, r0) ==
    LET s1 == Ext(st, rsz, GetsizeError)
    IN Call(s1, 0,
            IF args.bootloader_path # None /\ args.partitions_path # None
            THEN "Starting complete ESP32-S3 flash (bootloader + partitions + app)..."
            ELSE "Starting app-only flash (may not boot without bootloader)...",
            r0)

\* what self._firmware_size is after PioPrepareWrite ran from st with rsz
SizeAfter(st, rsz) ==
    IF st.exc = None /\ ~(rsz /\ CanRaise(st))
    THEN [has |-> TRUE, val |-> FileSize(args.firmware_path)]
    ELSE firmware_size

\* the chip_id sub-command in its own try/except, then either the start of
\* the erase sub-command or the preparation of the write
PioChipId ==
    /\ pc = "pio_chip_id"
    /\ Tick
    /\ \E out \in RunOutcomes, r15 \in BOOLEAN, r30 \in BOOLEAN, rsz \in BOOLEAN, r0 \in BOOLEAN :
         LET s1 == Ext(Start, out = "raise", SpawnError)
             s2 == IF out = "rc0" THEN Call(s1, 15, "Detected chip: {chip_type}", r15) ELSE s1
             s3 == Swallow(s2, "chip_id")
             s4 == IF args.erase_all
                   THEN Call(s3, 30, "Erasing flash with PlatformIO...", r30)
                   ELSE PioPrepareWrite(s3, rsz, r0)
         IN /\ Commit(s4)
            /\ spawned' = IF out = "raise" THEN spawned ELSE Append(spawned, "pio chip_id")
            /\ firmware_size' = IF args.erase_all THEN firmware_size ELSE SizeAfter(s3, rsz)
            /\ flash_cmd' = IF args.erase_all THEN flash_cmd ELSE PioFlashCmd
            /\ IF s4.exc # None THEN PioExcept(s4)
               ELSE BackendContinues(IF args.erase_all THEN "pio_erase" ELSE "pio_popen")
    /\ UNCHANGED <<progress_callback, args, start_time, process, output_lines, progress,
                   loop_start, attempt_start, returned>>
    /\ UNCHANGED detection
    /\ UNCHANGED erase_result
    /\ UNCHANGED cli

\* mutant: the exit code of the erase sub-command is not looked at
PioErase_ignoresExitCode ==
    /\ pc = "pio_erase"
    /\ Tick
    /\ \E out \in RunOutcomes, err \in StderrTexts, r50 \in BOOLEAN, rsz \in BOOLEAN, r0 \in BOOLEAN :
         LET s1 == Ext(Start, out = "raise", SpawnError)
             s2 == IF out # "raise" THEN Call(s1, 50, "Flash erased, uploading firmware...", r50) ELSE s1
             s3 == IF out # "raise" THEN PioPrepareWrite(s2, rsz, r0) ELSE s2
         IN /\ Commit(s3)
            /\ erase_result' = IF out = "raise" THEN erase_result
                               ELSE [returncode |-> IF out = "rc0" THEN 0 ELSE 1]
            /\ spawned' = IF out = "raise" THEN spawned ELSE Append(spawned, "pio erase_flash")
            /\ firmware_size' = IF out # "raise" THEN SizeAfter(s2, rsz) ELSE firmware_size
            /\ flash_cmd' = IF out # "raise" /\ s2.exc = None THEN PioFlashCmd ELSE flash_cmd
            /\ IF s3.exc # None THEN PioExcept(s3)
               ELSE BackendContinues("pio_popen")
    /\ UNCHANGED <<progress_callback, args, start_time, process, output_lines, progress,
                   loop_start, attempt_start, returned>>
    /\ UNCHANGED detection
    /\ UNCHANGED cli

\* the erase sub-command, then the preparation of the write
PioErase ==
    /\ pc = "pio_erase"
    /\ Tick
    /\ \E out \in RunOutcomes, err \in StderrTexts, r50 \in BOOLEAN, rsz \in BOOLEAN, r0 \in BOOLEAN :
         LET s1 == Ext(Start, out = "raise", SpawnError)
             s2 == IF out = "rc0" THEN Call(s1, 50, "Flash erased, uploading firmware...", r50) ELSE s1
             s3 == IF out = "rc0" THEN PioPrepareWrite(s2, rsz, r0) ELSE s2
         IN /\ Commit(s3)
            /\ erase_result' = IF out = "raise" THEN erase_result
                               ELSE [returncode |-> IF out = "rc0" THEN 0 ELSE 1]
            /\ spawned' = IF out = "raise" THEN spawned ELSE Append(spawned, "pio erase_flash")
            /\ firmware_size' = IF out = "rc0" THEN SizeAfter(s2, rsz) ELSE firmware_size
            /\ flash_cmd' = IF out = "rc0" /\ s2.exc = None THEN PioFlashCmd ELSE flash_cmd
            /\ IF s3.exc # None THEN PioExcept(s3)
               ELSE IF out = "rc1"
               THEN BackendReturns(FlashResult(FALSE, <<"PlatformIO erase failed: ">> \o err, 0, None),
                                   "erase_failed", "ff_after_primary")
               ELSE BackendContinues("pio_popen")
    /\ UNCHANGED <<progress_callback, args, start_time, process, output_lines, progress,
                   loop_start, attempt_start, returned>>
    /\ UNCHANGED detection
    /\ UNCHANGED cli

\* subprocess.Popen(flash_cmd, ...): the write process is started
PioPopen ==
    /\ pc = "pio_popen"
    /\ Tick
    /\ \E out \in RunOutcomes \ {"rc1"} :
         LET s1 == Ext(Start, out = "raise", SpawnError)
         IN /\ Commit(s1)
            /\ IF s1.exc # None
               THEN /\ PioExcept(s1)
                    /\ UNCHANGED <<process, output_lines, progress, loop_start, spawned>>
               ELSE /\ process' = [NoProcess EXCEPT !.state = "running"]
                    /\ output_lines' = <<>>
                    /\ progress' = 0
                    /\ loop_start' = Len(events)
                    /\ spawned' = Append(spawned, "pio write_flash")
                    /\ BackendContinues("pio_read")
    /\ UNCHANGED <<progress_callback, args, start_time, firmware_size, flash_cmd,
                   attempt_start, returned>>
    /\ UNCHANGED detection
    /\ UNCHANGED erase_result
    /\ UNCHANGED cli

\* addr_part = line.split('Writing at 0x')[1].split('...')[0]
AddrPart(line) == SplitFirst(<<"...">>, SplitSecond(<<"Writing at 0x">>, line))

\* the body of the read loop of _flash_with_platformio for one stripped
\* line: the block state and the local `progress` after it
PioHandleLine(st, line, prog, r1, r2) ==
    IF Contains(<<"Writing at 0x">>, line)
    THEN LET addr_part == AddrPart(line)
             current_addr == ParseHex(addr_part)
             bytes_written == current_addr - PIO_BASE_ADDRESS
             progress_percent == Min(Trunc100(bytes_written, firmware_size.val), WRITE_CAP)
             stepped == Min(prog + STEP_INCREMENT, WRITE_CAP)
             try == IF ~IsHex(addr_part)
                    THEN [st |-> Raise(st, ValueError), progress |-> prog]
                    ELSE IF firmware_size.has /\ firmware_size.val > 0
                    THEN [st |-> Call(st, progress_percent, "Writing firmware... {progress_percent}%", r1),
                          progress |-> prog]
                    ELSE [st |-> Call(st, stepped, "Writing firmware...", r1), progress |-> stepped]
             again == Min(try.progress + STEP_INCREMENT, WRITE_CAP)
         IN IF try.st.exc = None THEN try
            ELSE [st |-> Call(Swallow(try.st, "writing_line"), again, "Writing firmware...", r2), progress |-> again]
    ELSE IF Contains(<<"Hash of data verified">>, line)
    THEN [st |-> Call(st, 100, "Flash completed!", r1), progress |-> prog]
    ELSE IF Contains(<<"Hard resetting">>, line)
    THEN [st |-> Call(st, 100, "Flash completed!", r1), progress |-> prog]
    ELSE IF Contains(<<"Connecting">>, line)
    THEN [st |-> Call(st, 65, "Connecting to ESP32...", r1), progress |-> prog]
    ELSE [st |-> st, progress |-> prog]

\* mutant: the exit of the process is polled before the pipe is read, so the
\* loop is left with lines still unread
PioReadLine_pollFirst ==
    /\ pc = "pio_read"
    /\ UNCHANGED <<progress_callback, args, start_time, now, firmware_size, flash_cmd,
                   loop_start, attempt_start, returned, spawned>>
    /\ process.pipe # <<>> \/ process.closed
    /\ IF process.pipe # <<>> /\ process.state # "exited"
       THEN \E r1 \in BOOLEAN, r2 \in BOOLEAN :
              LET line == Strip(Head(process.pipe))
                  h == PioHandleLine(Start, line, progress, r1, r2)
              IN /\ process' = [process EXCEPT !.pipe = Tail(@)]
                 /\ output_lines' = Append(output_lines, line)
                 /\ progress' = h.progress
                 /\ Commit(h.st)
                 /\ IF h.st.exc # None THEN PioExcept(h.st) ELSE BackendContinues("pio_read")
       ELSE /\ pc' = IF process.state = "exited" THEN "pio_wait" ELSE "pio_read"
            /\ UNCHANGED <<process, output_lines, progress, events, raised, swallowed,
                           result, attempts>>
    /\ UNCHANGED detection
    /\ UNCHANGED erase_result
    /\ UNCHANGED cli

\* one iteration of the read loop: readline() returns the next line of the
\* pipe, or '' at end of file; the loop is left when '' is read and the
\* process has exited
PioReadLine ==
    /\ pc = "pio_read"
    /\ UNCHANGED <<progress_callback, args, start_time, now, firmware_size, flash_cmd,
                   loop_start, attempt_start, returned, spawned>>
    /\ process.pipe # <<>> \/ process.closed
    /\ IF process.pipe # <<>>
       THEN \E r1 \in BOOLEAN, r2 \in BOOLEAN :
              LET line == Strip(Head(process.pipe))
                  h == PioHandleLine(Start, line, progress, r1, r2)
              IN /\ process' = [process EXCEPT !.pipe = Tail(@)]
                 /\ output_lines' = Append(output_lines, line)
                 /\ progress' = h.progress
                 /\ Commit(h.st)
                 /\ IF h.st.exc # None THEN PioExcept(h.st) ELSE BackendContinues("pio_read")
       ELSE /\ pc' = IF process.state = "exited" THEN "pio_wait" ELSE "pio_read"
            /\ UNCHANGED <<process, output_lines, progress, events, raised, swallowed,
                           result, attempts>>
    /\ UNCHANGED detection
    /\ UNCHANGED erase_result
    /\ UNCHANGED cli

\* mutant: success also requires that a 100% event was seen
PioWait_needsCompletionEvent ==
    /\ pc = "pio_wait"
    /\ process.state = "exited"
    /\ Tick
    /\ IF process.returncode = 0 /\ \E i \in 1..Len(events) : events[i].percent = 100
       THEN BackendReturns(FlashResult(TRUE, <<"Firmware flashed successfully with PlatformIO">>, 0, None),
                           "success", "ff_after_primary")
       ELSE BackendReturns(FlashResult(FALSE, <<"PlatformIO flash failed: ">>
                                                \o JoinLines(LastN(output_lines, TAIL_LINES)), 0, None),
                           "write_failed", "ff_after_primary")
    /\ UNCHANGED <<progress_callback, args, start_time, firmware_size, flash_cmd, process,
                   output_lines, progress, events, loop_start, attempt_start, returned,
                   raised, swallowed, spawned>>
    /\ UNCHANGED detection
    /\ UNCHANGED erase_result
    /\ UNCHANGED cli

\* return_code = process.wait() and the result built from it
PioWait ==
    /\ pc = "pio_wait"
    /\ process.state = "exited"
    /\ Tick
    /\ IF process.returncode = 0
       THEN BackendReturns(FlashResult(TRUE, <<"Firmware flashed successfully with PlatformIO">>, 0, None),
                           "success", "ff_after_primary")
       ELSE BackendReturns(FlashResult(FALSE, <<"PlatformIO flash failed: ">>
                                                \o JoinLines(LastN(output_lines, TAIL_LINES)), 0, None),
                           "write_failed", "ff_after_primary")
    /\ UNCHANGED <<progress_callback, args, start_time, firmware_size, flash_cmd, process,
                   output_lines, progress, events, loop_start, attempt_start, returned,
                   raised, swallowed, spawned>>
    /\ UNCHANGED detection
    /\ UNCHANGED erase_result
    /\ UNCHANGED cli

\* ------------------------------------------------ the external write process
\* The process is followed while the backend that started it reads from it.
Observed == pc \in {"pio_read", "esp_read"}

ToolWritesLine ==
    /\ Observed
    /\ process.state = "running"
    /\ ~process.closed
    /\ process.written < MaxLines
    /\ process.pipe = <<>>
    /\ \E l \in LineSet :
         process' = [process EXCEPT !.pipe = Append(@, l), !.written = @ + 1]
    /\ UNCHANGED <<progress_callback, pc, args, start_time, now, firmware_size, flash_cmd,
                   output_lines, progress, events, loop_start, attempt_start, result,
                   returned, attempts, raised, swallowed, spawned>>
    /\ UNCHANGED detection
    /\ UNCHANGED erase_result
    /\ UNCHANGED cli

\* everything the process printed so far is its numbered log
OnlyLogSoFar ==
    /\ \A i \in 1..Len(output_lines) : output_lines[i][1] = LogPrefix
    /\ \A i \in 1..Len(process.pipe) : process.pipe[i][1] = LogPrefix

ToolWritesLogLine ==
    /\ Observed
    /\ process.state = "running"
    /\ ~process.closed
    /\ process.written < MaxLogLines
    /\ process.pipe = <<>>
    /\ OnlyLogSoFar
    /\ process' = [process EXCEPT !.pipe = Append(@, LogLine(process.written + 1)),
                                  !.written = @ + 1]
    /\ UNCHANGED <<progress_callback, pc, args, start_time, now, firmware_size, flash_cmd,
                   output_lines, progress, events, loop_start, attempt_start, result,
                   returned, attempts, raised, swallowed, spawned>>
    /\ UNCHANGED detection
    /\ UNCHANGED erase_result
    /\ UNCHANGED cli

ToolClosesOutput ==
    /\ Observed
    /\ process.state = "running"
    /\ ~process.closed
    /\ process' = [process EXCEPT !.closed = TRUE]
    /\ UNCHANGED <<progress_callback, pc, args, start_time, now, firmware_size, flash_cmd,
                   output_lines, progress, events, loop_start, attempt_start, result,
                   returned, attempts, raised, swallowed, spawned>>
    /\ UNCHANGED detection
    /\ UNCHANGED erase_result
    /\ UNCHANGED cli

ToolExits ==
    /\ Observed
    /\ process.state = "running"
    /\ process.closed
    /\ \E c \in ExitCodes :
         process' = [process EXCEPT !.state = "exited", !.returncode = c]
    /\ UNCHANGED <<progress_callback, pc, args, start_time, now, firmware_size, flash_cmd,
                   output_lines, progress, events, loop_start, attempt_start, result,
                   returned, attempts, raised, swallowed, spawned>>
    /\ UNCHANGED detection
    /\ UNCHANGED erase_result
    /\ UNCHANGED cli

\* ------------------------------------------ _flash_with_esptool_subprocess
\* mutant: the failure message leaves out str(e)
EspExcept_noDescription(st) ==
    BackendReturns(FlashResult(FALSE, <<"Subprocess error: ">>, 0, None),
                   "except", "ff_after_fallback")

\* the except clause of _flash_with_esptool_subprocess
EspExcept(st) ==
    BackendReturns(FlashResult(FALSE, <<"Subprocess error: ", st.exc>>, 0, None),
                   "except", "ff_after_fallback")

EspFlashCmd == <<[address |-> args.flash_address, file |-> args.firmware_path]>>

\* the firmware size is stored and the fixed events emitted, up to the erase
\* sub-command or the start of the write process
EspStart ==
    /\ pc = "esp_start"
    /\ Tick
    /\ \E rsz \in BOOLEAN, r0 \in BOOLEAN, r1 \in BOOLEAN :
         LET s1 == Ext(Start, rsz, GetsizeError)
             s2 == Call(s1, 0, "Starting flash operation...", r0)
             s3 == IF args.erase_all
                   THEN Call(s2, 10, "Erasing flash...", r1)
                   ELSE Call(s2, 40, "Starting firmware write...", r1)
         IN /\ Commit(s3)
            /\ firmware_size' = IF s1.exc = None
                                THEN [has |-> TRUE, val |-> FileSize(args.firmware_path)]
                                ELSE firmware_size
            /\ flash_cmd' = IF ~args.erase_all /\ s2.exc = None THEN EspFlashCmd ELSE flash_cmd
            /\ IF s3.exc # None THEN EspExcept(s3)
               ELSE BackendContinues(IF args.erase_all THEN "esp_erase" ELSE "esp_popen")
    /\ UNCHANGED <<progress_callback, args, start_time, process, output_lines, progress,
                   loop_start, attempt_start, returned, spawned>>
    /\ UNCHANGED detection
    /\ UNCHANGED erase_result
    /\ UNCHANGED cli

\* the erase sub-command, then the events before the write
EspErase ==
    /\ pc = "esp_erase"
    /\ Tick
    /\ \E out \in RunOutcomes, err \in StderrTexts, r30 \in BOOLEAN, r40 \in BOOLEAN :
         LET s1 == Ext(Start, out = "raise", SpawnError)
             s2 == IF out = "rc0" THEN Call(s1, 30, "Flash erased, starting write...", r30) ELSE s1
             s3 == IF out = "rc0" THEN Call(s2, 40, "Starting firmware write...", r40) ELSE s2
         IN /\ Commit(s3)
            /\ erase_result' = IF out = "raise" THEN erase_result
                               ELSE [returncode |-> IF out = "rc0" THEN 0 ELSE 1]
            /\ spawned' = IF out = "raise" THEN spawned ELSE Append(spawned, "esptool erase-flash")
            /\ flash_cmd' = IF out = "rc0" /\ s2.exc = None THEN EspFlashCmd ELSE flash_cmd
            /\ IF s3.exc # None THEN EspExcept(s3)
               ELSE IF out = "rc1"
               THEN BackendReturns(FlashResult(FALSE, <<"Erase failed: ">> \o err, 0, None),
                                   "erase_failed", "ff_after_fallback")
               ELSE BackendContinues("esp_popen")
    /\ UNCHANGED <<progress_callback, args, start_time, firmware_size, process, output_lines,
                   progress, loop_start, attempt_start, returned>>
    /\ UNCHANGED detection
    /\ UNCHANGED cli

EspPopen ==
    /\ pc = "esp_popen"
    /\ Tick
    /\ \E out \in RunOutcomes \ {"rc1"} :
         LET s1 == Ext(Start, out = "raise", SpawnError)
         IN /\ Commit(s1)
            /\ IF s1.exc # None
               THEN /\ EspExcept(s1)
                    /\ UNCHANGED <<process, output_lines, progress, loop_start, spawned>>
               ELSE /\ process' = [NoProcess EXCEPT !.state = "running"]
                    /\ output_lines' = <<>>
                    /\ progress' = 40
                    /\ loop_start' = Len(events)
                    /\ spawned' = Append(spawned, "esptool write-flash")
                    /\ BackendContinues("esp_read")
    /\ UNCHANGED <<progress_callback, args, start_time, firmware_size, flash_cmd,
                   attempt_start, returned>>
    /\ UNCHANGED detection
    /\ UNCHANGED erase_result
    /\ UNCHANGED cli

\* mutant: the completion marker is not recognised
EspMarkerLine_noCompletion(st, line, r1) ==
    IF Contains(<<"Hash of data verified">>, line)
    THEN Call(st, 95, "Verifying flash...", r1)
    ELSE IF Contains(<<"Connecting", "...">>, line)
    THEN Call(st, 35, "Connecting to device...", r1)
    ELSE IF Contains(<<"Chip is">>, line)
    THEN Call(st, 38, "Detected: {line}", r1)
    ELSE st

\* the elif chain of the read loop for a line that is not a 'Writing at 0x'
\* line: the fixed event of the marker the line contains, if any
EspMarkerLine(st, line, r1) ==
    IF Contains(<<"Hash of data verified">>, line)
    THEN Call(st, 95, "Verifying flash...", r1)
    ELSE IF Contains(<<"Hard resetting", " via RTS pin">>, line)
    THEN Call(st, 100, "Flash completed!", r1)
    ELSE IF Contains(<<"Connecting", "...">>, line)
    THEN Call(st, 35, "Connecting to device...", r1)
    ELSE IF Contains(<<"Chip is">>, line)
    THEN Call(st, 38, "Detected: {line}", r1)
    ELSE st

\* the body of the read loop of _flash_with_esptool_subprocess for one
\* stripped line
EspHandleLine(st, line, prog, r1, r2) ==
    IF Contains(<<"Writing at 0x">>, line)
    THEN LET addr_part == AddrPart(line)
             current_addr == ParseHex(addr_part)
             bytes_written == current_addr - args.flash_address
             progress_percent == Min(Trunc100(bytes_written, firmware_size.val), WRITE_CAP)
             by_address == Min(Trunc100(current_addr - args.flash_address, FALLBACK_DIVISOR), WRITE_CAP)
             try == IF ~IsHex(addr_part)
                    THEN [st |-> Raise(st, ValueError), progress |-> prog]
                    ELSE IF firmware_size.has /\ firmware_size.val > 0
                    THEN [st |-> Call(st, progress_percent, "Writing firmware... {progress_percent}%", r1),
                          progress |-> prog]
                    ELSE IF current_addr > args.flash_address
                    THEN [st |-> Call(st, by_address, "Writing firmware... {progress}%", r1),
                          progress |-> by_address]
                    ELSE [st |-> st, progress |-> prog]
             again == Min(try.progress + STEP_INCREMENT, WRITE_CAP)
         IN IF try.st.exc = None THEN try
            ELSE [st |-> Call(Swallow(try.st, "writing_line"), again, "Writing firmware...", r2), progress |-> again]
    ELSE [st |-> EspMarkerLine(st, line, r1), progress |-> prog]

\* mutant: the loop is left at end of file without polling the process
EspReadLine_leavesAtEof ==
    /\ pc = "esp_read"
    /\ UNCHANGED <<progress_callback, args, start_time, now, firmware_size, flash_cmd,
                   loop_start, attempt_start, returned, spawned>>
    /\ process.pipe # <<>> \/ process.closed
    /\ IF process.pipe # <<>>
       THEN \E r1 \in BOOLEAN, r2 \in BOOLEAN :
              LET line == Strip(Head(process.pipe))
                  h == EspHandleLine(Start, line, progress, r1, r2)
              IN /\ process' = [process EXCEPT !.pipe = Tail(@)]
                 /\ output_lines' = Append(output_lines, line)
                 /\ progress' = h.progress
                 /\ Commit(h.st)
                 /\ IF h.st.exc # None THEN EspExcept(h.st) ELSE BackendContinues("esp_read")
       ELSE /\ pc' = "esp_wait"
            /\ UNCHANGED <<process, output_lines, progress, events, raised, swallowed,
                           result, attempts>>
    /\ UNCHANGED detection
    /\ UNCHANGED erase_result
    /\ UNCHANGED cli

\* one iteration of the read loop of _flash_with_esptool_subprocess
EspReadLine ==
    /\ pc = "esp_read"
    /\ UNCHANGED <<progress_callback, args, start_time, now, firmware_size, flash_cmd,
                   loop_start, attempt_start, returned, spawned>>
    /\ process.pipe # <<>> \/ process.closed
    /\ IF process.pipe # <<>>
       THEN \E r1 \in BOOLEAN, r2 \in BOOLEAN :
              LET line == Strip(Head(process.pipe))
                  h == EspHandleLine(Start, line, progress, r1, r2)
              IN /\ process' = [process EXCEPT !.pipe = Tail(@)]
                 /\ output_lines' = Append(output_lines, line)
                 /\ progress' = h.progress
                 /\ Commit(h.st)
                 /\ IF h.st.exc # None THEN EspExcept(h.st) ELSE BackendContinues("esp_read")
       ELSE /\ pc' = IF process.state = "exited" THEN "esp_wait" ELSE "esp_read"
            /\ UNCHANGED <<process, output_lines, progress, events, raised, swallowed,
                           result, attempts>>
    /\ UNCHANGED detection
    /\ UNCHANGED erase_result
    /\ UNCHANGED cli

EspWait ==
    /\ pc = "esp_wait"
    /\ process.state = "exited"
    /\ Tick
    /\ IF process.returncode = 0
       THEN BackendReturns(FlashResult(TRUE, <<"Firmware flashed successfully">>, 0, None),
                           "success", "ff_after_fallback")
       ELSE BackendReturns(FlashResult(FALSE, <<"Esptool failed with code ", CodeStr(process.returncode), ": ">>
                                                \o JoinLines(LastN(output_lines, TAIL_LINES)), 0, None),
                           "write_failed", "ff_after_fallback")
    /\ UNCHANGED <<progress_callback, args, start_time, firmware_size, flash_cmd, process,
                   output_lines, progress, events, loop_start, attempt_start, returned,
                   raised, swallowed, spawned>>
    /\ UNCHANGED detection
    /\ UNCHANGED erase_result
    /\ UNCHANGED cli

\* -------------------------------------------------------------- erase_flash
erase_flash ==
    /\ pc = "idle"
    /\ args' = [call |-> "erase_flash"]
    /\ start_time' = now
    /\ pc' = "er_connect"
    /\ Tick
    /\ UNCHANGED <<progress_callback, firmware_size, flash_cmd, process, output_lines,
                   progress, events, loop_start, attempt_start, result, returned,
                   attempts, raised, swallowed, spawned>>
    /\ UNCHANGED detection
    /\ UNCHANGED erase_result
    /\ UNCHANGED cli

\* the except clause of erase_flash
EraseExcept(st) ==
    /\ returned' = FlashResult(FALSE, <<"Erase operation failed: ", st.exc>>, now' - start_time, None)
    /\ pc' = "returned"

\* the 0% event and the choice of the path (`if esptool:`)
EraseConnect ==
    /\ pc = "er_connect"
    /\ Tick
    /\ \E r0 \in BOOLEAN, esptool \in BOOLEAN :
         LET s1 == Call(Start, 0, "Connecting to device...", r0)
         IN /\ Commit(s1)
            /\ IF s1.exc # None THEN EraseExcept(s1)
               ELSE /\ pc' = IF esptool THEN "er_detect" ELSE "er_run"
                    /\ UNCHANGED returned
    /\ UNCHANGED <<progress_callback, args, start_time, firmware_size, flash_cmd, process,
                   output_lines, progress, loop_start, attempt_start, result, attempts, spawned>>
    /\ UNCHANGED detection
    /\ UNCHANGED erase_result
    /\ UNCHANGED cli

\* esp = esptool.detect_chip(...) and the 20% event
EraseDetect ==
    /\ pc = "er_detect"
    /\ Tick
    /\ \E rd \in BOOLEAN, r20 \in BOOLEAN :
         LET s1 == Ext(Start, rd, DetectError)
             s2 == Call(s1, 20, "Erasing flash...", r20)
         IN /\ Commit(s2)
            /\ IF s2.exc # None THEN EraseExcept(s2)
               ELSE /\ pc' = "er_erase"
                    /\ UNCHANGED returned
    /\ UNCHANGED <<progress_callback, args, start_time, firmware_size, flash_cmd, process,
                   output_lines, progress, loop_start, attempt_start, result, attempts, spawned>>
    /\ UNCHANGED detection
    /\ UNCHANGED erase_result
    /\ UNCHANGED cli

\* esp.erase_flash(), the 100% event and the result
EraseModule ==
    /\ pc = "er_erase"
    /\ Tick
    /\ \E re \in BOOLEAN, r100 \in BOOLEAN :
         LET s1 == Ext(Start, re, DetectError)
             s2 == Call(s1, 100, "Flash erased successfully!", r100)
         IN /\ Commit(s2)
            /\ IF s2.exc # None THEN EraseExcept(s2)
               ELSE /\ returned' = FlashResult(TRUE, <<"Flash erased successfully">>,
                                               now' - start_time, "ESP32-S3")
                    /\ pc' = "returned"
    /\ UNCHANGED <<progress_callback, args, start_time, firmware_size, flash_cmd, process,
                   output_lines, progress, loop_start, attempt_start, result, attempts, spawned>>
    /\ UNCHANGED detection
    /\ UNCHANGED erase_result
    /\ UNCHANGED cli

\* the subprocess path: subprocess.run of the erase command and the result
EraseRun ==
    /\ pc = "er_run"
    /\ Tick
    /\ \E out \in RunOutcomes, err \in StderrTexts :
         LET s1 == Ext(Start, out = "raise", SpawnError)
         IN /\ Commit(s1)
            /\ spawned' = IF out = "raise" THEN spawned ELSE Append(spawned, "esptool erase_flash")
            /\ IF s1.exc # None THEN EraseExcept(s1)
               ELSE /\ returned' =
                         IF out = "rc0"
                         THEN FlashResult(TRUE, <<"Flash erased successfully">>, now' - start_time, None)
                         ELSE FlashResult(FALSE, <<"Erase failed: ">> \o err, now' - start_time, None)
                    /\ pc' = "returned"
    /\ UNCHANGED <<progress_callback, args, start_time, firmware_size, flash_cmd, process,
                   output_lines, progress, loop_start, attempt_start, result, attempts>>
    /\ UNCHANGED detection
    /\ UNCHANGED erase_result
    /\ UNCHANGED cli

\* ---------------------------------------------------------- DeviceDetector
\* DeviceDetector.ESP32_USB_IDS: (vid, pid) of the known USB bridges
ESP32_USB_IDS ==
    { <<4292, 60000>>, <<4292, 60016>>, <<4292, 60017>>,
      <<6790, 29987>>, <<6790, 21795>>,
      <<1027, 24577>>, <<1027, 24592>>, <<1027, 24593>>, <<1027, 24596>>, <<1027, 24597>>,
      <<12346, 4097>>, <<12346, 2>>, <<12346, 3>>, <<12346, 4>> }

\* DeviceDetector.ESP32_DESCRIPTIONS, lower-cased
ESP32_DESCRIPTIONS ==
    { "silicon labs cp210x usb to uart bridge", "usb-serial ch340", "usb serial", "esp32",
      "slab_usbtouart", "usbserial", "ttyusb", "cu.slab_usbtouart", "cu.usbserial",
      "cu.wchusbserial" }

DevicePatterns == {"ttyusb", "cu.slab", "cu.usbserial", "cu.wchusbserial"}

\* str.lower() of the tokens of port names and descriptions
LowerPortToken(t) ==
    CASE t = "ttyUSB" -> "ttyusb"
      [] t = "ttyS" -> "ttys"
      [] t = "COM" -> "com"
      [] t = "USB-SERIAL CH340" -> "usb-serial ch340"
      [] t = "CP2102 USB to UART Bridge Controller" -> "cp2102 usb to uart bridge controller"
      [] t = " (COM3)" -> " (com3)"
      [] OTHER -> t

LowerPort(s) == [i \in 1..Len(s) |-> LowerPortToken(s[i])]

\* the entries serial.tools.list_ports.comports() can return (vid and pid
\* are 0 where the port reports none)
UsbBridgePort ==
    [device |-> <<"/dev/", "ttyUSB", "0">>,
     description |-> <<"CP2102 USB to UART Bridge Controller">>, vid |-> 4292, pid |-> 60000]

Ch340Port ==
    [device |-> <<"COM", "3">>,
     description |-> <<"USB-SERIAL CH340", " (COM3)">>, vid |-> 0, pid |-> 0]

BuiltinPort ==
    [device |-> <<"/dev/", "ttyS", "0">>, description |-> <<"n/a">>, vid |-> 0, pid |-> 0]

PortLists ==
    { <<>>, <<UsbBridgePort>>, <<BuiltinPort>>, <<BuiltinPort, Ch340Port>>,
      <<UsbBridgePort, Ch340Port, BuiltinPort>> }

PortNames == {UsbBridgePort.device, Ch340Port.device, BuiltinPort.device, <<"COM", "9">>}

\* DeviceDetector._is_esp32_device
IsEsp32Device(port) ==
    \/ port.vid # 0 /\ port.pid # 0 /\ <<port.vid, port.pid>> \in ESP32_USB_IDS
    \/ port.description # <<>>
         /\ \E d \in ESP32_DESCRIPTIONS : Contains(<<d>>, LowerPort(port.description))
    \/ port.device # <<>>
         /\ \E d \in DevicePatterns : Contains(<<d>>, LowerPort(port.device))

\* the attributes class DeviceDetector defines
DeviceDetectorAttributes ==
    { "ESP32_USB_IDS", "ESP32_DESCRIPTIONS", "detect_esp32_devices", "_is_esp32_device",
      "_detect_chip_type", "get_device_by_port", "list_all_ports" }

AttributeError(name) == <<"type object 'DeviceDetector' has no attribute ", name>>

\* the body of detect_esp32_devices: for every enumerated port the loop
\* looks up cls._identify_esp32_device, an attribute the class does not
\* define, and the AttributeError leaves the method
DetectEsp32Devices(ports) ==
    IF ports = <<>> THEN [raised |-> None, value |-> <<>>]
    ELSE IF "_identify_esp32_device" \notin DeviceDetectorAttributes
    THEN [raised |-> AttributeError("_identify_esp32_device"), value |-> None]
    ELSE [raised |-> None, value |-> <<>>]

\* the body of get_device_by_port: the first detected device on port_name
GetDeviceByPort(ports, port_name) ==
    LET devices == DetectEsp32Devices(ports)
        hits == IF devices.raised # None THEN {}
                ELSE {i \in 1..Len(devices.value) : devices.value[i].port = port_name}
    IN IF devices.raised # None THEN devices
       ELSE IF hits = {} THEN [raised |-> None, value |-> None]
       ELSE [raised |-> None, value |-> devices.value[CHOOSE i \in hits : \A j \in hits : i <= j]]

detect_esp32_devices ==
    /\ pc = "idle"
    /\ \E ports \in PortLists :
         detection' = [call |-> "detect_esp32_devices", ports |-> ports, port_name |-> None,
                       outcome |-> DetectEsp32Devices(ports)]
    /\ args' = [call |-> "detect_esp32_devices"]
    /\ pc' = "detected"
    /\ UNCHANGED <<progress_callback, start_time, now, firmware_size, flash_cmd, process,
                   output_lines, progress, events, loop_start, attempt_start, result,
                   returned, attempts, raised, swallowed, spawned>>
    /\ UNCHANGED erase_result
    /\ UNCHANGED cli

get_device_by_port ==
    /\ pc = "idle"
    /\ \E ports \in PortLists, port_name \in PortNames :
         detection' = [call |-> "get_device_by_port", ports |-> ports, port_name |-> port_name,
                       outcome |-> GetDeviceByPort(ports, port_name)]
    /\ args' = [call |-> "get_device_by_port"]
    /\ pc' = "detected"
    /\ UNCHANGED <<progress_callback, start_time, now, firmware_size, flash_cmd, process,
                   output_lines, progress, events, loop_start, attempt_start, result,
                   returned, attempts, raised, swallowed, spawned>>
    /\ UNCHANGED erase_result
    /\ UNCHANGED cli

\* --------------------------------------------------- main.py: flash command
\* values of the --port and --firmware options (None: option not given)
PortOptions == {None, UsbBridgePort.device, <<"COM", "9">>}
FirmwareOptions == {None, "fw.bin", "missing.bin"}

\* the command has ended in sys.exit(status) at the place `via`, or in one
\* of its except clauses
CommandExit(status, via, device, firmware, asked) ==
    [step |-> "exited", exit_status |-> status, via |-> via, device |-> device,
     firmware |-> firmware, asked |-> asked, flash_calls |-> 0]

\* mutant: the handler of unexpected errors reports success
FlashCommandExcept_exitsZero(exc) ==
    IF exc = "KeyboardInterrupt"
    THEN CommandExit(1, "interrupt", None, None, None)
    ELSE CommandExit(0, "exception", None, None, None)

\* the except clauses of the command: KeyboardInterrupt and Exception both
\* end in sys.exit(1)
FlashCommandExcept(exc) ==
    IF exc = "KeyboardInterrupt"
    THEN CommandExit(1, "interrupt", None, None, None)
    ELSE CommandExit(1, "exception", None, None, None)

\* step 1 of the command: the device looked up on --port, or the only device
\* the scan finds.  [exit: where the command exits (None: it goes on),
\* exc: the exception that left the block, device: the device selected]
SelectDevice(port, ports) ==
    IF port # None
    THEN LET found == GetDeviceByPort(ports, port)
             rescan == DetectEsp32Devices(ports)
         IN IF found.raised # None THEN [exit |-> None, exc |-> found.raised, device |-> None]
            ELSE IF found.value = None
            THEN IF rescan.raised # None
                 THEN [exit |-> None, exc |-> rescan.raised, device |-> None]
                 ELSE [exit |-> "no_device", exc |-> None, device |-> None]
            ELSE [exit |-> None, exc |-> None, device |-> found.value]
    ELSE LET devices == DetectEsp32Devices(ports)
         IN IF devices.raised # None THEN [exit |-> None, exc |-> devices.raised, device |-> None]
            ELSE IF devices.value = <<>> THEN [exit |-> "no_device", exc |-> None, device |-> None]
            ELSE IF Len(devices.value) > 1
            THEN [exit |-> "several_devices", exc |-> None, device |-> None]
            ELSE [exit |-> None, exc |-> None, device |-> devices.value[1]]

\* CLI.prepare_firmware: the FirmwareInfo of the --firmware file or of the
\* default firmware, None when it is missing or not valid
PrepareFirmware(firmware, default) ==
    LET path == IF firmware # None THEN firmware ELSE default
    IN IF path # None /\ PathExists(path) THEN path ELSE None

\* the flash command from its start to sys.exit or to its call of
\* FlashController.flash_firmware (through CLI.flash_firmware_with_progress,
\* which sets the progress callback first)
flash ==
    /\ pc = "idle"
    /\ cli = NoCommand
    /\ progress_callback = None
    /\ \E port \in PortOptions, ports \in PortLists, firmware \in FirmwareOptions,
          default \in {None, "fw.bin"}, yes \in BOOLEAN, answer \in BOOLEAN,
          interrupted \in BOOLEAN, ea \in BOOLEAN, ac \in AddressAndCompanions :
         LET sel == SelectDevice(port, ports)
             info == PrepareFirmware(firmware, default)
             asked == IF yes THEN None ELSE IF answer THEN "confirmed" ELSE "declined"
             exits ==
                 IF interrupted THEN FlashCommandExcept("KeyboardInterrupt")
                 ELSE IF sel.exc # None THEN FlashCommandExcept(sel.exc)
                 ELSE IF sel.exit # None THEN CommandExit(1, sel.exit, None, None, None)
                 ELSE IF info = None THEN CommandExit(1, "invalid_firmware", sel.device, None, None)
                 ELSE IF asked = "declined" THEN CommandExit(0, "declined", sel.device, info, asked)
                 ELSE [step |-> "flashing", exit_status |-> -1, via |-> None, device |-> sel.device,
                       firmware |-> info, asked |-> asked, flash_calls |-> 1]
         IN /\ cli' = [exits EXCEPT !.via = IF exits.step = "exited" THEN @ ELSE None]
            /\ IF exits.step = "exited"
               THEN /\ pc' = "cli_exited"
                    /\ UNCHANGED <<progress_callback, args, start_time>>
               ELSE /\ progress_callback' = "cb"
                    /\ args' = [call |-> "flash_firmware", firmware_path |-> info,
                                flash_address |-> DEFAULT_FLASH_ADDRESS, erase_all |-> ea,
                                bootloader_path |-> ac[2], partitions_path |-> ac[3]]
                    /\ start_time' = now
                    /\ pc' = "ff_validate"
    /\ Tick
    /\ UNCHANGED <<firmware_size, flash_cmd, process, output_lines, progress, events,
                   loop_start, attempt_start, result, returned, attempts, raised, swallowed,
                   spawned, detection, erase_result>>

\* the status the command exits with: sys.exit(0 if result.success else 1)
\* after the flash, the recorded status on the earlier exits (-1: running)
ExitStatus ==
    IF cli.step = "flashing"
    THEN IF pc = "returned" THEN (IF returned.success THEN 0 ELSE 1) ELSE -1
    ELSE cli.exit_status

\* ------------------------------------------------------------ specification
Next ==
    \/ set_progress_callback
    \/ flash_firmware
    \/ Validate
    \/ FallBack
    \/ ReturnResult
    \/ PioVersion
    \/ PioChipId
    \/ PioErase
    \/ PioPopen
    \/ PioReadLine
    \/ PioWait
    \/ EspStart
    \/ EspErase
    \/ EspPopen
    \/ EspReadLine
    \/ EspWait
    \/ ToolWritesLine
    \/ ToolWritesLogLine
    \/ ToolClosesOutput
    \/ ToolExits
    \/ erase_flash
    \/ EraseConnect
    \/ EraseDetect
    \/ EraseModule
    \/ EraseRun
    \/ detect_esp32_devices
    \/ get_device_by_port
    \/ flash

Spec == Init /\ [][Next]_vars

ReadPositions == {"pio_read", "esp_read"}
WaitPositions == {"pio_wait", "esp_wait"}

\* a step of the running call outside the read loops
SequentialStep ==
    \/ Validate
    \/ FallBack
    \/ ReturnResult
    \/ PioVersion
    \/ PioChipId
    \/ PioErase
    \/ PioPopen
    \/ PioWait
    \/ EspStart
    \/ EspErase
    \/ EspPopen
    \/ EspWait

\* an iteration of a read loop that got a line: readline() took it from the
\* pipe
LineRead ==
    /\ pc \in ReadPositions
    /\ process.pipe # <<>>
    /\ process' = [process EXCEPT !.pipe = Tail(@)]

\* an iteration of a read loop that got '' from a process that has exited:
\* break
LoopLeft ==
    /\ pc \in ReadPositions
    /\ process.pipe = <<>> /\ process.closed /\ process.state = "exited"
    /\ pc' = IF pc = "pio_read" THEN "pio_wait" ELSE "esp_wait"

\* the running call keeps executing (its straight-line steps and the
\* iterations of its read loop), and a launched process eventually closes
\* its output and exits (it need not print anything)
LiveSpec ==
    /\ Spec
    /\ WF_vars(SequentialStep)
    /\ WF_process(LineRead)
    /\ WF_pc(LoopLeft)
    /\ WF_vars(ToolClosesOutput)
    /\ WF_vars(ToolExits)

\* ------------------------------------------------------------------ claims
PioPositions == {"pio_version", "pio_chip_id", "pio_erase", "pio_popen", "pio_read", "pio_wait"}
EspPositions == {"esp_start", "esp_erase", "esp_popen", "esp_read", "esp_wait"}
LoopPositions == {"pio_read", "pio_wait", "esp_read", "esp_wait"}

NonDecreasingFrom(first) ==
    \A i \in first..Len(events) : \A j \in i..Len(events) :
        events[i].percent <= events[j].percent

FlashReturned == pc = "returned" /\ args.call = "flash_firmware"

\* C1: within one read loop (one session of either backend) the percents
\* passed to the progress callback never decrease (checked on the sessions
\* in which no exception was raised).
C1_LinePercentsNonDecreasing ==
    (pc \in LoopPositions /\ raised = <<>>) => NonDecreasingFrom(loop_start + 1)

\* C2: over one whole backend attempt, fixed stage events included, the
\* percents passed to the progress callback never decrease (checked on the
\* attempts in which no exception was raised).
C2_AttemptPercentsNonDecreasing ==
    (pc \in PioPositions \cup EspPositions /\ raised = <<>>)
        => NonDecreasingFrom(attempt_start + 1)

\* C3: every percent passed to the progress callback lies in 0..100
\* (checked on the calls in which no exception was raised).
C3_PercentInRange ==
    raised = <<>> => \A i \in 1..Len(events) : events[i].percent \in 0..100

\* the primary returned from the `pio --version` check with "PlatformIO not
\* found": the tool-unavailable report
PrimaryReportedUnavailable ==
    /\ Len(attempts) >= 1
    /\ attempts[1].resolved
    /\ attempts[1].via = "not_found"

EsptoolAttempts == {i \in 1..Len(attempts) : attempts[i].backend = "esptool"}

\* a with the duration the orchestrator computes
WithDuration(r) == [r EXCEPT !.duration = now - start_time]

\* C4: when the primary reports tool-unavailable, flash_firmware has, by the
\* time it returns, invoked the fallback exactly once, and what it returns is
\* the fallback's result with only the duration overwritten.
C4_FallbackResultVerbatim ==
    (FlashReturned /\ PrimaryReportedUnavailable)
        => /\ Cardinality(EsptoolAttempts) = 1
           /\ Len(attempts) = 2
           /\ attempts[2].backend = "esptool"
           /\ attempts[2].resolved
           /\ returned.success = attempts[2].result.success
           /\ returned.message = attempts[2].result.message
           /\ returned.chip_type = attempts[2].result.chip_type

\* C4 witness: a call whose primary reported tool-unavailable and whose
\* fallback then flashed successfully has returned.
C4_Witness ==
    FlashReturned /\ PrimaryReportedUnavailable /\ returned.success /\ Len(attempts) = 2

\* the spawn of `pio --version` itself failed: the primary resolved through
\* its except clause before any process was launched
PioSpawnFailed ==
    /\ Len(attempts) >= 1
    /\ attempts[1].resolved
    /\ attempts[1].via = "except"
    /\ attempts[1].result.message = <<"PlatformIO error: ", SpawnError>>
    /\ \A i \in 1..Len(spawned) : spawned[i] # "pio --version"

\* C5: when `pio` cannot be launched at all, flash_firmware goes on to run
\* the fallback backend.
C5_SpawnFailureFallsBack ==
    (FlashReturned /\ PioSpawnFailed) => Cardinality(EsptoolAttempts) = 1

\* the primary launched the tool and the tool exited non-zero
PrimaryToolFailed ==
    /\ Len(attempts) >= 1
    /\ attempts[1].resolved
    /\ attempts[1].via \in {"erase_failed", "write_failed"}

\* C6: when the primary's tool ran and exited non-zero, flash_firmware runs
\* no fallback and returns the primary's failure, whatever the tool printed
\* (checked on the calls in which no exception was raised).
C6_ToolFailureNoFallback ==
    (FlashReturned /\ PrimaryToolFailed /\ raised = <<>>)
        => /\ EsptoolAttempts = {}
           /\ returned = WithDuration(attempts[1].result)

\* the state of the flash_firmware state machine the call is in
Phase ==
    CASE pc = "idle" -> "Idle"
      [] pc = "ff_validate" -> "Validating"
      [] pc \in PioPositions \cup {"ff_after_primary"} -> "Attempting(primary)"
      [] pc \in EspPositions \cup {"ff_after_fallback"} -> "Attempting(fallback)"
      [] pc = "returned" -> IF returned.success THEN "Succeeded" ELSE "Failed"
      [] OTHER -> "Erasing"

ClaimedEdges ==
    { <<"Idle", "Validating">>,
      <<"Validating", "Attempting(primary)">>,
      <<"Attempting(primary)", "Succeeded">>,
      <<"Attempting(primary)", "Attempting(fallback)">>,
      <<"Attempting(primary)", "Failed">>,
      <<"Attempting(fallback)", "Succeeded">>,
      <<"Attempting(fallback)", "Failed">> }

\* the backend attempts of a call are the primary, then at most once the
\* fallback, begun only after the primary resolved without success
AttemptsInOrder ==
    /\ Len(attempts) <= 2
    /\ Len(attempts) >= 1 => attempts[1].backend = "platformio"
    /\ Len(attempts) = 2 => /\ attempts[2].backend = "esptool"
                            /\ attempts[1].resolved
                            /\ ~attempts[1].result.success
    /\ Phase = "Attempting(primary)"
         => Len(attempts) = 1 /\ (attempts[1].resolved <=> pc = "ff_after_primary")
    /\ Phase = "Attempting(fallback)"
         => Len(attempts) = 2 /\ (attempts[2].resolved <=> pc = "ff_after_fallback")
    /\ Phase \in {"Idle", "Validating"} => attempts = <<>>

FollowsEdges(edges) ==
    (args'.call = "flash_firmware" /\ Phase' # Phase) => <<Phase, Phase'>> \in edges

\* C7 as stated: every change of state of a flash_firmware call follows
\* Idle -> Validating -> Attempting(primary) -> {Succeeded |
\* Attempting(fallback) | Failed}, Attempting(fallback) -> {Succeeded |
\* Failed}.
C7_ClaimedStateMachine == [][FollowsEdges(ClaimedEdges)]_vars

\* C7 amended: the same state machine with the edge Validating -> Failed
\* added; the primary is the first attempt, the fallback starts only after
\* the primary has resolved without success, no backend is attempted twice
\* and at most two attempts occur.
C7_StateMachine ==
    /\ [][FollowsEdges(ClaimedEdges \cup {<<"Validating", "Failed">>})]_vars
    /\ []AttemptsInOrder

\* C7 witness: a call went through both attempts and failed.
C7_Witness ==
    FlashReturned /\ Len(attempts) = 2 /\ ~returned.success

\* C8: a call has a result exactly when it has returned, the result never
\* changes afterwards, and after a fallback attempt it is the fallback's
\* result (with the duration set), not the primary's.
C8_ResultWellFormed ==
    /\ pc # "returned" => returned = NoResult
    /\ FlashReturned =>
         /\ returned # NoResult
         /\ Len(attempts) = 1 => returned = WithDuration(attempts[1].result)
         /\ Len(attempts) = 2 => /\ returned = WithDuration(attempts[2].result)
                                 /\ returned.message # attempts[1].result.message

C8_OneResult ==
    /\ []C8_ResultWellFormed
    /\ [][pc = "returned" => (pc' = "returned" /\ returned' = returned)]_vars

\* C8 witness: a call whose fallback ran has returned the fallback's failure.
C8_Witness ==
    /\ FlashReturned
    /\ Len(attempts) = 2
    /\ attempts[2].via = "write_failed"
    /\ returned.message = attempts[2].result.message

\* the last exception raised was neither swallowed nor followed by another
Unswallowed == Len(raised) > Len(swallowed)

\* C9 as stated: every exception raised during a call is converted into a
\* failed FlashResult whose message contains its description.
C9_EveryExceptionConverted ==
    (pc = "returned" /\ raised # <<>>)
        => /\ ~returned.success
           /\ \A i \in 1..Len(raised) : Contains(<<raised[i]>>, returned.message)

\* C9 amended: no exception escapes; an exception is converted into a failed
\* FlashResult whose message contains its description unless it was raised
\* in the chip-detection try block of _flash_with_platformio or by the
\* callback invoked for a 'Writing at 0x' line inside the address-parsing try
\* block, where it is dropped and the attempt goes on.
C9_ExceptionsConvertedOrSwallowed ==
    /\ pc # "raised"
    /\ Len(swallowed) <= Len(raised)
    /\ \A i \in 1..Len(swallowed) : swallowed[i] \in {"chip_id", "writing_line"}
    /\ pc \notin {"returned", "ff_after_primary", "ff_after_fallback"} => ~Unswallowed
    /\ (pc = "returned" /\ Unswallowed)
         => /\ ~returned.success
            /\ Contains(<<raised[Len(raised)]>>, returned.message)

\* C9 witness: an exception raised by the progress callback in the read loop
\* of the fallback came back as a failed result carrying its description.
C9_Witness ==
    /\ FlashReturned
    /\ Unswallowed
    /\ Len(attempts) = 2
    /\ output_lines # <<>>
    /\ returned.message = <<"Subprocess error: ", CallbackError>>

\* C10: a call with a missing firmware file returns a failure of duration 0
\* whose message names the path, and neither backend nor any external
\* process was started.
C10_MissingFirmware ==
    (FlashReturned /\ ~(args.firmware_path \in ExistingFiles))
        => /\ ~returned.success
           /\ returned.duration = 0
           /\ Contains(<<args.firmware_path>>, returned.message)
           /\ attempts = <<>>
           /\ spawned = <<>>
           /\ process.state = "none"

\* C10 witness: the call for missing.bin has returned.
C10_Witness ==
    FlashReturned /\ args.firmware_path = "missing.bin" /\ now > start_time

\* the read loop has nothing left to read: end of file and the process gone
OutputExhausted == process.pipe = <<>> /\ process.closed /\ process.state = "exited"

\* the read loop is left for process.wait() only when the output is
\* exhausted and the process has exited, and then at its next iteration
LoopLeavesOnTime ==
    /\ (pc \in ReadPositions /\ pc' \in WaitPositions) => OutputExhausted
    /\ (pc \in ReadPositions /\ OutputExhausted) => pc' \in WaitPositions

\* C11: when every launched process eventually closes its output and exits,
\* every flash_firmware call eventually returns a FlashResult; the read loop
\* of a backend is left as soon as the output is exhausted and the process
\* has exited, and not before.
C11_EveryCallReturns ==
    /\ [][LoopLeavesOnTime]_vars
    /\ [](pc = "ff_validate" => <>FlashReturned)

\* C11 witness: a call has returned after a read loop that consumed output
\* and then saw the process exit.
C11_Witness ==
    /\ FlashReturned
    /\ OutputExhausted
    /\ output_lines # <<>>
    /\ attempts[Len(attempts)].via \in {"success", "write_failed"}

ResolvedPositions == {"ff_after_primary", "ff_after_fallback", "returned"}

\* every line the tool wrote so far has been read
AllLinesConsumed == process.pipe = <<>> /\ Len(output_lines) = process.written

\* C12: no progress event is delivered once the attempt's FlashResult has
\* been produced nor after flash_firmware has returned, and when the exit
\* code is evaluated every line the tool wrote has been consumed (and turned
\* into its event in the same iteration).
C12_NoEventAfterResult ==
    /\ [][(pc \in ResolvedPositions /\ args.call = "flash_firmware") => events' = events]_vars
    /\ [](pc \in WaitPositions => AllLinesConsumed)
    /\ []((pc \in ResolvedPositions /\ attempts # <<>>
            /\ attempts[Len(attempts)].via \in {"success", "write_failed"}) => AllLinesConsumed)

\* C12 witness: a call has returned the failure of a write process whose
\* lines were all read and one of which produced an event.
C12_Witness ==
    /\ FlashReturned
    /\ attempts # <<>>
    /\ attempts[Len(attempts)].via = "write_failed"
    /\ process.written > 0
    /\ AllLinesConsumed
    /\ Len(events) > loop_start

\* the read loop is about to handle a 'Writing at 0x<hex>' line with a
\* parsable address while the firmware size is known and positive
NextLine == Strip(Head(process.pipe))

AddressLineAhead ==
    /\ pc \in ReadPositions
    /\ process.pipe # <<>>
    /\ Contains(<<"Writing at 0x">>, NextLine)
    /\ IsHex(AddrPart(NextLine))
    /\ firmware_size.has /\ firmware_size.val > 0
    /\ progress_callback # None

\* the step is an iteration of the read loop that consumed a line
LineConsumed == Len(output_lines') = Len(output_lines) + 1

BaseAddress == IF pc = "pio_read" THEN PIO_BASE_ADDRESS ELSE args.flash_address

Floor100(a, b) == (a * 100) \div b

\* C13: a 'Writing at 0x<hex>' line with a parsable address and a known
\* firmware size > 0 emits floor((address - base) / size * 100) capped at 99
\* (checked on the iterations of calls in which no exception was raised).
C13_AddressPercent ==
    [][(AddressLineAhead /\ LineConsumed /\ raised' = <<>>)
         => /\ Len(events') = Len(events) + 1
            /\ events'[Len(events')].percent =
                 Min(Floor100(ParseHex(AddrPart(NextLine)) - BaseAddress, firmware_size.val), WRITE_CAP)]_vars

ResetMarker == <<"Hard resetting", " via RTS pin">>

\* C14: in both backends a line containing 'Hard resetting via RTS pin'
\* produces a progress event with percent 100, whatever was emitted before
\* it in the session.
C14_ResetLineEmits100 ==
    [][(/\ pc \in ReadPositions
        /\ process.pipe # <<>>
        /\ Contains(ResetMarker, NextLine)
        /\ progress_callback # None
        /\ LineConsumed)
         => /\ Len(events') = Len(events) + 1
            /\ events'[Len(events')].percent = 100]_vars

\* C14 witness: in the fallback's session the reset line was read after a
\* line that had produced 99%, and 100% was delivered for it.
C14_Witness ==
    /\ pc = "esp_read"
    /\ Len(output_lines) = 2
    /\ Contains(ResetMarker, output_lines[2])
    /\ Len(events) >= loop_start + 2
    /\ events[Len(events)].percent = 100
    /\ events[Len(events) - 1].percent = WRITE_CAP

\* the read loop is about to handle a 'Writing at 0x' line whose address
\* part is not hexadecimal
MalformedLineAhead ==
    /\ pc \in ReadPositions
    /\ process.pipe # <<>>
    /\ Contains(<<"Writing at 0x">>, NextLine)
    /\ ~IsHex(AddrPart(NextLine))
    /\ progress_callback # None

\* C15: a 'Writing at 0x' line with a malformed address does not abort the
\* attempt and emits min(p + 2, 99), p being the percent of the last event
\* delivered before it (checked on the calls in which no exception was
\* raised by the environment).
C15_MalformedLineSteps ==
    [][(MalformedLineAhead /\ LineConsumed /\ raised' = <<>>)
         => /\ pc' = pc
            /\ Len(events') = Len(events) + 1
            /\ events'[Len(events')].percent =
                 Min(events[Len(events)].percent + STEP_INCREMENT, WRITE_CAP)]_vars

WriteCommand(backend) == IF backend = "platformio" THEN "pio write_flash" ELSE "esptool write-flash"

\* the attempt started its write process
WriteStarted(a) == \E i \in 1..Len(spawned) : spawned[i] = WriteCommand(a.backend)

ExitedWithZero == process.state = "exited" /\ process.returncode = 0

\* C16 as stated: an attempt whose write process was started returns
\* success exactly when that process exited with code 0.
C16_SuccessIffExitZero ==
    \A i \in 1..Len(attempts) :
        (attempts[i].resolved /\ WriteStarted(attempts[i]))
            => (attempts[i].result.success <=> ExitedWithZero)

\* C16 amended: an attempt whose write process was started returns success
\* exactly when that process exited with code 0 and no exception interrupted
\* the attempt after the process was started; the events delivered do not
\* matter.
C16_SuccessIffExitZeroUninterrupted ==
    \A i \in 1..Len(attempts) :
        (attempts[i].resolved /\ WriteStarted(attempts[i]))
            => /\ attempts[i].result.success <=> (ExitedWithZero /\ attempts[i].via # "except")
               /\ attempts[i].via \in {"success", "write_failed", "except"}
               /\ attempts[i].via = "except" => Unswallowed

\* C16 witness: the primary's write process exited with 0 after lines that
\* produced events none of which was 100%, and the attempt returned success.
C16_Witness ==
    /\ pc = "ff_after_primary"
    /\ attempts[1].via = "success"
    /\ progress_callback # None
    /\ Len(events) > loop_start
    /\ \A i \in 1..Len(events) : events[i].percent # 100

\* the fixed part of the failure message of a write process
FailurePrefix(backend) ==
    IF backend = "platformio" THEN <<"PlatformIO flash failed: ">>
    ELSE <<"Esptool failed with code ", CodeStr(process.returncode), ": ">>

\* the last min(n, 10) of the n lines read, in the order they were read
ExpectedTail ==
    LET n == Len(output_lines)
        m == Min(n, TAIL_LINES)
    IN [k \in 1..m |-> output_lines[n - m + k]]

\* C17: when the write process exits non-zero after n lines, the failure
\* message carries exactly the last min(n, 10) lines of its output in the
\* order they were read, the lines that produced no event included.
C17_FailureTail ==
    \A i \in 1..Len(attempts) :
        (attempts[i].resolved /\ attempts[i].via = "write_failed")
            => /\ Len(output_lines) = process.written
               /\ attempts[i].result.message
                    = FailurePrefix(attempts[i].backend) \o JoinLines(ExpectedTail)

\* C17 witness: the primary's write process printed twelve log lines and
\* exited non-zero; the message returned carries lines 3 to 12.
C17_Witness ==
    /\ FlashReturned
    /\ process.written = TAIL_LINES + 2
    /\ returned.message = <<"PlatformIO flash failed: ">>
                            \o JoinLines([k \in 1..TAIL_LINES |-> Strip(LogLine(k + 2))])

EraseReturned == pc = "returned" /\ args.call = "erase_flash"

\* C18: an erase_flash call that returns success has delivered a 100% event
\* to the progress callback (when one is set), on the module path and on the
\* subprocess path alike.
C18_EraseReportsCompletion ==
    (EraseReturned /\ returned.success /\ progress_callback # None)
        => \E i \in 1..Len(events) : events[i].percent = 100

\* the time a resolved attempt took
Elapsed(a) == a.ended - a.began

RECURSIVE TotalElapsed(_)
TotalElapsed(as) == IF as = <<>> THEN 0 ELSE Elapsed(Head(as)) + TotalElapsed(Tail(as))

FileExistsReturned == FlashReturned /\ PathExists(args.firmware_path)

\* C19 as stated: the duration returned equals the primary's elapsed time,
\* plus the fallback's when the fallback ran.
C19_DurationIsAttemptsTime ==
    (FileExistsReturned /\ attempts # <<>>) => returned.duration = TotalElapsed(attempts)

\* C19 amended: the duration returned is the time from the start of the call
\* to the resolution of the last attempt: the time spent before the first
\* attempt (file check and 0% event), plus the primary's elapsed time, plus
\* the fallback's when it ran; it is never the 0 a backend puts in its own
\* result.
C19_DurationFromCallStart ==
    FileExistsReturned =>
        IF attempts = <<>>
        THEN returned.duration = now - start_time /\ returned.duration > 0
        ELSE /\ returned.duration = attempts[Len(attempts)].ended - start_time
             /\ returned.duration = (attempts[1].began - start_time) + TotalElapsed(attempts)
             /\ Len(attempts) = 2 => attempts[2].began = attempts[1].ended
             /\ attempts[Len(attempts)].result.duration = 0
             /\ returned.duration > 0

\* C19 witness: a call whose fallback ran has returned, and both attempts
\* took time.
C19_Witness ==
    /\ FileExistsReturned
    /\ Len(attempts) = 2
    /\ Elapsed(attempts[1]) > 0
    /\ Elapsed(attempts[2]) > 1
    /\ returned.duration > TotalElapsed(attempts)

\* the ports among the enumerated ones that are ESP32 candidates
CandidatePorts(ports) == SelectSeq(ports, IsEsp32Device)

\* C20: get_device_by_port(name) returns, without raising, the detected
\* device whose port is name when an ESP32 candidate with that port is
\* enumerated and None otherwise; detect_esp32_devices returns one device
\* per enumerated port that is an ESP32 candidate.
C20_DeviceLookup ==
    /\ detection.call = "detect_esp32_devices"
         => /\ detection.outcome.raised = None
            /\ Len(detection.outcome.value) = Len(CandidatePorts(detection.ports))
            /\ \A i \in 1..Len(detection.outcome.value) :
                  detection.outcome.value[i].port = CandidatePorts(detection.ports)[i].device
    /\ detection.call = "get_device_by_port"
         => /\ detection.outcome.raised = None
            /\ IF \E i \in 1..Len(detection.ports) :
                     /\ IsEsp32Device(detection.ports[i])
                     /\ detection.ports[i].device = detection.port_name
               THEN /\ detection.outcome.value # None
                    /\ detection.outcome.value.port = detection.port_name
               ELSE detection.outcome.value = None

EraseCommand(backend) == IF backend = "platformio" THEN "pio erase_flash" ELSE "esptool erase-flash"

\* the percent of the event that reports the finished erase
ErasedPercent(backend) == IF backend = "platformio" THEN 50 ELSE 30

\* position in `spawned` of the first launch of cmd, 0 if it was never
\* launched
LaunchIndex(cmd) ==
    LET hits == {i \in 1..Len(spawned) : spawned[i] = cmd}
    IN IF hits = {} THEN 0 ELSE CHOOSE i \in hits : \A j \in hits : i <= j

ErasePositions == {"pio_erase", "esp_erase"}
PopenPositions == {"pio_popen", "esp_popen"}

\* the state is inside the attempt of some backend or just after it
CurrentAttempt == attempts[Len(attempts)]

\* the erase sub-command comes before the write process, which is started
\* only after the erase was reported
ErasedBeforeWrite(a) ==
    /\ LaunchIndex(EraseCommand(a.backend)) > 0
    /\ LaunchIndex(EraseCommand(a.backend)) < LaunchIndex(WriteCommand(a.backend))
    /\ progress_callback # None
         => \E k \in (attempt_start + 1)..loop_start :
               events[k].percent = ErasedPercent(a.backend)

\* a step that runs the erase sub-command to completion either, on exit
\* code 0, reports it and goes on to start the write process, or, on another
\* exit code, ends the attempt in the erase failure
EraseStepDecides ==
    (pc \in ErasePositions /\ spawned' # spawned)
        => /\ spawned' = Append(spawned, EraseCommand(CurrentAttempt.backend))
           /\ IF erase_result'.returncode = 0
              THEN \/ /\ pc' \in PopenPositions
                      /\ progress_callback # None
                           => events'[Len(events) + 1].percent = ErasedPercent(CurrentAttempt.backend)
                   \/ /\ pc' \in ResolvedPositions
                      /\ attempts'[Len(attempts')].via = "except"
              ELSE /\ pc' \in ResolvedPositions
                   /\ ~result'.success
                   /\ attempts'[Len(attempts')].via = "erase_failed"
                   /\ events' = events

\* C21: in both backends, with erase_all set the erase sub-command is run to
\* completion and reported at its fixed percent (50 in the primary, 30 in the
\* fallback) before the write process is started; an erase that exits
\* non-zero ends the attempt in a failure without the write process ever
\* being started; without erase_all no erase sub-command is run.
C21_EraseBeforeWrite ==
    /\ [][EraseStepDecides]_vars
    /\ [](args.call = "flash_firmware" =>
            \A i \in 1..Len(attempts) :
                LET a == attempts[i]
                IN /\ ~args.erase_all => LaunchIndex(EraseCommand(a.backend)) = 0
                   /\ (args.erase_all /\ WriteStarted(a)) => ErasedBeforeWrite(a)
                   /\ (a.resolved /\ a.via = "erase_failed")
                        => /\ ~WriteStarted(a)
                           /\ ~a.result.success
                           /\ LaunchIndex(EraseCommand(a.backend)) > 0)

\* C21 witness: the fallback's write process runs after an erase that was
\* reported, and a primary attempt ended on its failed erase.
C21_Witness ==
    /\ pc = "esp_read"
    /\ args.erase_all
    /\ progress_callback # None
    /\ attempts[1].via = "erase_failed"
    /\ ErasedBeforeWrite(attempts[2])

\* the primary has built its write command
PioCommandBuilt == pc \in {"pio_popen", "pio_read", "pio_wait"}

CompanionPresent(path) == path # None /\ PathExists(path)

\* C22: the primary's write command holds the three segments bootloader,
\* partition table and application, in that order at their fixed offsets,
\* exactly when both companion files are present; in every other case it
\* holds the application image alone, at the request's flash address.
C22_WriteCommandSegments ==
    PioCommandBuilt =>
        IF CompanionPresent(args.bootloader_path) /\ CompanionPresent(args.partitions_path)
        THEN flash_cmd = << [address |-> BOOTLOADER_ADDRESS, file |-> args.bootloader_path],
                            [address |-> PARTITIONS_ADDRESS, file |-> args.partitions_path],
                            [address |-> APP_ADDRESS, file |-> args.firmware_path] >>
        ELSE flash_cmd = << [address |-> args.flash_address, file |-> args.firmware_path] >>

\* the segment of the write command an address lies in: the one with the
\* greatest start address not above it
SegmentOf(addr) ==
    LET below == {i \in 1..Len(flash_cmd) : flash_cmd[i].address <= addr}
    IN flash_cmd[CHOOSE i \in below : \A j \in below : flash_cmd[j].address <= flash_cmd[i].address]

\* C23: in a three-segment write of the primary, the percent of a
\* 'Writing at 0x<addr>' line is measured against the start address and the
\* size of the segment the address lies in, so that it is in 0..99 for the
\* lines of the bootloader and of the partition table as well (checked on
\* the iterations of calls in which no exception was raised).
C23_SegmentRelativePercent ==
    [][(AddressLineAhead /\ pc = "pio_read" /\ Len(flash_cmd) = 3 /\ LineConsumed /\ raised' = <<>>)
         => LET addr == ParseHex(AddrPart(NextLine))
                seg == SegmentOf(addr)
            IN /\ Len(events') = Len(events) + 1
               /\ events'[Len(events')].percent \in 0..WRITE_CAP
               /\ events'[Len(events')].percent =
                    Min(Floor100(addr - seg.address, FileSize(seg.file)), WRITE_CAP)]_vars

\* the read loop is about to handle a 'Writing at 0x<hex>' line with a
\* parsable address while the firmware size is unknown or zero
SizelessAddressLineAhead ==
    /\ pc \in ReadPositions
    /\ process.pipe # <<>>
    /\ Contains(<<"Writing at 0x">>, NextLine)
    /\ IsHex(AddrPart(NextLine))
    /\ ~(firmware_size.has /\ firmware_size.val > 0)
    /\ progress_callback # None

\* C24: with the firmware size unknown or zero, a 'Writing at 0x<addr>' line
\* with a parsable address produces, in both backends, one event whose
\* percent is the loop's previous percent plus 2, capped at 99, whatever the
\* address (checked on the iterations of calls in which no exception was
\* raised).
C24_SizelessLineSteps ==
    [][(SizelessAddressLineAhead /\ LineConsumed /\ raised' = <<>>)
         => /\ Len(events') = Len(events) + 1
            /\ events'[Len(events')].percent = Min(progress + STEP_INCREMENT, WRITE_CAP)]_vars

\* the read loop is about to handle a line that reports verified data
VerifiedLineAhead ==
    /\ pc \in ReadPositions
    /\ process.pipe # <<>>
    /\ Contains(<<"Hash of data verified">>, NextLine)
    /\ ~Contains(<<"Writing at 0x">>, NextLine)
    /\ progress_callback # None

\* C25: in both backends a line containing 'Hash of data verified' produces
\* the 95% "verifying" event and not a completion event, so that in a
\* three-segment write no 100% event is delivered for the line printed after
\* the first segment.
C25_VerifiedLineEmits95 ==
    [][(VerifiedLineAhead /\ LineConsumed)
         => /\ Len(events') = Len(events) + 1
            /\ events'[Len(events')].percent = 95
            /\ events'[Len(events')].message = "Verifying flash..."]_vars

ConnectingEvent == [percent |-> 0, message |-> "Connecting to device..."]

\* C26: in a flash_firmware call with an existing firmware file and a
\* callback set, the first event delivered is the 0% "connecting" event, and
\* it is delivered before the primary backend is invoked and before any
\* external process is started; a call with a missing firmware file delivers
\* no event at all (and starts nothing).
C26_ConnectingEventFirst ==
    args.call = "flash_firmware" =>
        /\ events # <<>> => events[1] = ConnectingEvent
        /\ (PathExists(args.firmware_path) /\ progress_callback # None
              /\ (attempts # <<>> \/ spawned # <<>> \/ pc = "returned"))
             => events # <<>>
        /\ ~PathExists(args.firmware_path)
             => events = <<>> /\ attempts = <<>> /\ spawned = <<>>

\* C26 witness: the primary backend has run its first external command
\* after the 0% event, more events following it.
C26_Witness ==
    /\ pc = "pio_chip_id"
    /\ Len(spawned) = 1
    /\ Len(events) = 2
    /\ events[1] = ConnectingEvent

\* C27: when a backend attempt has returned its FlashResult, the write
\* process it started has exited, on the exception path out of the read loop
\* as on the others.
C27_NoProcessLeftRunning ==
    \A i \in 1..Len(attempts) :
        (attempts[i].resolved /\ WriteStarted(attempts[i])) => process.state = "exited"

\* C28: a flash_firmware call that returns success with a callback set has
\* delivered a 100% event during the successful attempt, whatever lines the
\* tool printed before it exited with code 0.
C28_SuccessReportsCompletion ==
    (FlashReturned /\ returned.success /\ progress_callback # None)
        => \E k \in (attempt_start + 1)..Len(events) : events[k].percent = 100

\* the running attempt has delivered a 100% event
CompletionDelivered ==
    /\ pc \in PioPositions \cup EspPositions
    /\ \E k \in (attempt_start + 1)..Len(events) : events[k].percent = 100

\* C29: once a backend has delivered a 100% event it delivers no further
\* event, lower or again 100, for the rest of the attempt, whatever the tool
\* prints afterwards.
C29_CompletionIsTerminal ==
    [][CompletionDelivered => events' = events]_vars

CommandEnded == cli.step = "exited" \/ (cli.step = "flashing" /\ pc = "returned")

====
